---- MODULE Spec2Model ----
(***************************************************************************)
(* Model of the NANDA HTTP gateway's connection and execution layer:       *)
(*   ServicesController.connectToService   (services.controller.ts)        *)
(*   ConnectionsController.executeTool / closeConnection                   *)
(*   ConnectionManager.createConnection / executeTool / closeConnection    *)
(*   TransportManager.connect / discoverTools / executeTool / disconnect   *)
(*   errorHandler (error.middleware)                                       *)
(*                                                                         *)
(* Spec    : the gateway driven through its HTTP routes.                   *)
(* SpecTM  : the TransportManager on its own, driven through its public    *)
(*           methods (connect, executeTool and disconnect with any key),   *)
(*           with the WebSocket traffic and the timers of the calls so     *)
(*           dispatched.                                                   *)
(* FairSpecTM : SpecTM with the event loop's guarantee that an armed timer *)
(*           fires.                                                        *)
(* SpecWS  : SpecTM with discoverTools called on WebSocket sessions.       *)
(* SpecConn : connect and disconnect of the TransportManager with several  *)
(*           sessions under way at once.                                   *)
(* FairSpecConn : SpecConn with the event loop's guarantees: an armed     *)
(*           timer fires, a settled promise's continuation runs.           *)
(***************************************************************************)
EXTENDS Integers, Sequences, FiniteSets, TLC

\* ---- bounds ------------------------------------------------------------
NumReqs == 1        \* connectToService requests (one uuid each)
NumSess == 2        \* TransportConnection objects connect() can build
MaxClock == 1       \* Date.now() ranges over 0..MaxClock
MaxCalls == 2       \* tool calls dispatched on WebSocket sessions

Reqs == 1..NumReqs
Sessions == 1..NumSess
Clock == 0..MaxClock

\* ---- timeouts (ms) ------------------------------------------------------
DefaultTimeout == 30000     \* params.timeout || 30000
WSExecTimeout == 30000      \* the timer of executeWebSocketTool
SSEExecTimeout == 30000     \* the axios timeout of executeSSETool's first POST

\* `timeout` of a request body (0: none given)
BodyTimeouts == {0, 5000}
CallTimeouts == {0, 1000}

\* ---- domains -----------------------------------------------------------
Transports == {"streamable-http", "websocket", "sse", "http"}
TagSets == {{}, {"evmauth"}, {"blockchain"}}
StarbucksTools == {"requestinfo"}
ToolSets == {{}, StarbucksTools}
ToolNames == {"add", "requestinfo"}

\* keys of TransportManager.connections: uuidv4() strings and
\* Date.now().toString() strings never coincide
Uuid(r) == <<"uuid", r>>
Ts(t) == <<"ts", t>>
Keys == {Uuid(r) : r \in Reqs} \cup {Ts(t) : t \in Clock}
NoId == <<"none", 0>>

NoConn == [state |-> "none", transport |-> "none", tools |-> {},
           lastUsed |-> 0, evmAuth |-> FALSE, timeout |-> 0]

\* the promise of connectWebSocket / connectSSE: how it settled, whether its
\* timer is armed, whether the 2 s re-check of an SSE error is under way,
\* whether the timer of connectWebSocket has closed the socket
NoLink == [promise |-> "none", timer |-> FALSE, recheck |-> FALSE,
           closed |-> FALSE]

\* the promise of discoverWebSocketTools (outcome also tells, for the other
\* transports, which way their discovery ended); got: the {id, result} or
\* {id, error} frame carrying the request's id that arrived while it was
\* pending
NoDisc == [outcome |-> "none", id |-> 0, timer |-> FALSE, handler |-> FALSE,
           got |-> "none"]

\* owner: the createConnection call that had the session built (0: another
\* caller); timeout: the timeout of its axios client (0: it has no client)
NoSess == [transport |-> "none", status |-> "none", probe |-> "none",
           owner |-> 0, timeout |-> 0, link |-> NoLink, disc |-> NoDisc]

NoLast == [op |-> "none", conn |-> 0, tags |-> {}, hasAuth |-> FALSE,
           owner |-> "none", listed |-> {}, outcome |-> "none",
           declared |-> "none", availableTools |-> {},
           timeout |-> 0, deadline |-> 0,
           registered |-> FALSE, stateSeen |-> "none", toolKnown |-> FALSE,
           reachedTM |-> FALSE, found |-> FALSE, code |-> "none",
           hasResult |-> FALSE, hasError |-> FALSE]

VARIABLES
  now,              \* Date.now()
  cpc,              \* per request: where its createConnection stands
  conn,             \* per request: the ServiceConnection object it created
                    \* (timeout: params.timeout of the call)
  tc,               \* per request: the session its connect() call builds
                    \* (transportConnection; 0: none)
  tid,              \* per session: the key connect() computed on entry
  cres,             \* per request: outcome of connectToService
  verifyCalls,      \* per request: calls made to EVMAuthService.verifyAuth
  connectAttempts,  \* per request: calls made to TransportManager.connect
  authResult,       \* per request: how verifyAuth ended
  connections,      \* ConnectionManager.connections (ids stored)
  sess,             \* per session: the TransportConnection object of connect()
  tmConnections,    \* TransportManager.connections : key -> session (0 = none)
  calls,            \* promises created by executeWebSocketTool
  last              \* what the latest request (connectToService, executeTool,
                    \* closeConnection) observed and was answered

vars == <<now, cpc, conn, tc, tid, cres, verifyCalls, connectAttempts, authResult,
          connections, sess, tmConnections, calls, last>>

cmVars == <<cpc, conn, tc, cres, verifyCalls, connectAttempts, authResult,
            connections, last>>

Init ==
  /\ now = 0
  /\ cpc = [r \in Reqs |-> "idle"]
  /\ conn = [r \in Reqs |-> NoConn]
  /\ tc = [r \in Reqs |-> 0]
  /\ tid = [s \in Sessions |-> NoId]
  /\ cres = [r \in Reqs |-> "none"]
  /\ verifyCalls = [r \in Reqs |-> 0]
  /\ connectAttempts = [r \in Reqs |-> 0]
  /\ authResult = [r \in Reqs |-> "none"]
  /\ connections = {}
  /\ sess = [s \in Sessions |-> NoSess]
  /\ tmConnections = [k \in Keys |-> 0]
  /\ calls = <<>>
  /\ last = NoLast

\* ---- the clock ---------------------------------------------------------
Tick ==
  /\ now < MaxClock
  /\ now' = now + 1
  /\ UNCHANGED <<cmVars, tid, sess, tmConnections, calls>>

\* a Promise settles once: a later resolve or reject changes nothing
Settle(old, new) == IF old = "pending" THEN new ELSE old

\* WebSocket.send on a socket that is no longer open throws or drops the
\* frame, depending on the ws version installed
SendOutcomes(status) == IF status = "open" THEN {"sent"} ELSE {"throws", "dropped"}

\* ---- TransportManager.connect -------------------------------------------
\* connectionId = params.connectionId || Date.now().toString()
ConnectKey(paramId) == IF paramId # NoId THEN paramId ELSE Ts(now)

\* axios.create({timeout: params.timeout}) of connectHTTP and
\* connectStreamableHTTP: the client keeps the timeout
ClientTimeout(transport, timeout) ==
  IF transport \in {"http", "streamable-http"} THEN timeout ELSE 0

\* connect() is entered: the key is computed, the TransportConnection object
\* is built, the transport-specific connect is awaited; connectWebSocket
\* creates the socket and its promise at once and arms the timer
TMConnectEnter(s, by, transport, paramId, timeout) ==
  /\ tid' = [tid EXCEPT ![s] = ConnectKey(paramId)]
  /\ sess' = [sess EXCEPT ![s] =
                [NoSess EXCEPT !.transport = transport, !.status = "connecting",
                               !.owner = by,
                               !.timeout = ClientTimeout(transport, timeout),
                               !.link = IF transport = "websocket"
                                        THEN [NoLink EXCEPT !.promise = "pending",
                                                            !.timer = TRUE]
                                        ELSE NoLink]]

\* the best-effort check a transport's connect makes before it goes on:
\* GET /health (connectHTTP), POST /message ping (connectStreamableHTTP),
\* GET <endpoint>/sse (connectSSE); connectWebSocket makes none
HasProbe(transport) == transport \in {"http", "streamable-http", "sse"}

\* the ways the promise of connectWebSocket / connectSSE resolves
LinkResolved == {"open", "message", "recovered", "timer"}

\* whether the transport's connect resolves, given how its probe and the
\* promise of its socket or event source went: connectHTTP and
\* connectStreamableHTTP catch the probe's failure, connectSSE rethrows it
\* and then awaits its promise, connectWebSocket awaits its promise
ConnectOutcome(transport, probeOk, linkOk) ==
  CASE transport \in {"http", "streamable-http"} -> TRUE
    [] transport = "sse" -> probeOk /\ linkOk
    [] transport = "websocket" -> linkOk
    [] OTHER -> FALSE

\* the inputs connect() goes on with: the probe of connectHTTP and
\* connectStreamableHTTP (only now made), the probe connectSSE has made and
\* the promise it awaits, the promise connectWebSocket awaits
ConnectInputs(s) ==
  LET e == sess[s] IN
  {<<p, l>> \in BOOLEAN \X BOOLEAN :
     CASE e.transport \in {"http", "streamable-http"} -> l
       [] e.transport = "websocket" ->
            /\ p
            /\ e.link.promise # "pending"
            /\ l = (e.link.promise \in LinkResolved)
       [] e.transport = "sse" ->
            /\ e.probe # "none"
            /\ p = (e.probe = "ok")
            /\ IF p THEN /\ e.link.promise # "pending"
                         /\ l = (e.link.promise \in LinkResolved)
               ELSE l
       [] OTHER -> FALSE}

\* discoverTools is entered: discoverWebSocketTools arms its 10 s timer,
\* registers its message handler and sends tools/list with id = Date.now();
\* a send that throws rejects the promise; the other transports' discovery
\* keeps nothing on the session
DiscoverEnter(e, send) ==
  IF e.transport = "websocket"
  THEN [e EXCEPT !.disc = [outcome |-> IF send = "throws" THEN "send_error"
                                        ELSE "pending",
                           id |-> now, timer |-> TRUE, handler |-> TRUE,
                           got |-> "none"]]
  ELSE e

\* the awaited connect settles: the session is stored under the key computed
\* on entry (whatever is stored there already), or the error is rethrown;
\* discover: the caller goes on with discoverTools at once
TMConnectSettle(s, probeOk, linkOk, discover) ==
  /\ sess[s].status = "connecting"
  /\ <<probeOk, linkOk>> \in ConnectInputs(s)
  /\ tid' = [tid EXCEPT ![s] = NoId]
  /\ LET probed == IF ~HasProbe(sess[s].transport) THEN "none"
                    ELSE IF probeOk THEN "ok" ELSE "failed"
         opened == [sess[s] EXCEPT !.status = "open", !.probe = probed]
     IN
     IF ConnectOutcome(sess[s].transport, probeOk, linkOk) THEN
       /\ sess' = [sess EXCEPT ![s] = IF discover THEN DiscoverEnter(opened, "sent")
                                      ELSE opened]
       /\ tmConnections' = [tmConnections EXCEPT ![tid[s]] = s]
     ELSE
       /\ sess' = [sess EXCEPT ![s].status = "failed", ![s].probe = probed]
       /\ UNCHANGED tmConnections

\* ---- the events of connectWebSocket -------------------------------------
\* 'open': the timer is cleared, the promise resolved with the socket
WSOpenKeepsTimer(s) ==
  /\ sess[s].transport = "websocket"
  /\ sess[s].link.promise # "none"
  /\ sess' = [sess EXCEPT ![s].link.promise = Settle(@, "open")]
  /\ UNCHANGED <<now, cmVars, tid, tmConnections, calls>>
WSOpen(s) ==
  /\ sess[s].transport = "websocket"
  /\ sess[s].link.promise # "none"
  /\ sess' = [sess EXCEPT ![s].link.timer = FALSE,
                          ![s].link.promise = Settle(@, "open")]
  /\ UNCHANGED <<now, cmVars, tid, tmConnections, calls>>

\* 'error': the timer is cleared, the promise rejected
WSError(s) ==
  /\ sess[s].transport = "websocket"
  /\ sess[s].link.promise # "none"
  /\ sess' = [sess EXCEPT ![s].link.timer = FALSE,
                          ![s].link.promise = Settle(@, "error")]
  /\ UNCHANGED <<now, cmVars, tid, tmConnections, calls>>

\* the timer of params.timeout fires: ws.close(), the promise rejected
WSConnectTimeout(s) ==
  /\ sess[s].transport = "websocket"
  /\ sess[s].link.timer
  /\ sess' = [sess EXCEPT ![s].link.timer = FALSE,
                          ![s].link.closed = TRUE,
                          ![s].link.promise = Settle(@, "timeout"),
                          ![s].status = IF @ = "open" THEN "closed" ELSE @]
  /\ UNCHANGED <<now, cmVars, tid, tmConnections, calls>>

\* ---- the events of connectSSE -------------------------------------------
\* the preliminary GET settles: a failure is rethrown, else the EventSource
\* and its promise are created and the 8 s timer armed
SSEProbeDone(s, ok) ==
  /\ sess[s].transport = "sse"
  /\ sess[s].status = "connecting"
  /\ sess[s].probe = "none"
  /\ sess' = [sess EXCEPT ![s].probe = IF ok THEN "ok" ELSE "failed",
                          ![s].link = IF ok THEN [NoLink EXCEPT !.promise = "pending",
                                                                !.timer = TRUE]
                                      ELSE NoLink]
  /\ UNCHANGED <<now, cmVars, tid, tmConnections, calls>>

\* onopen: the timer is cleared, the promise resolved
SSEOpen(s) ==
  /\ sess[s].transport = "sse"
  /\ sess[s].link.promise # "none"
  /\ sess' = [sess EXCEPT ![s].link.timer = FALSE,
                          ![s].link.promise = Settle(@, "open")]
  /\ UNCHANGED <<now, cmVars, tid, tmConnections, calls>>

\* a 'message' event: the timer is cleared, the promise resolved
SSEMessage(s) ==
  /\ sess[s].transport = "sse"
  /\ sess[s].link.promise # "none"
  /\ sess' = [sess EXCEPT ![s].link.timer = FALSE,
                          ![s].link.promise = Settle(@, "message")]
  /\ UNCHANGED <<now, cmVars, tid, tmConnections, calls>>

\* onerror: nothing is rejected, a 2 s timer is set to look at readyState
\* (followed here only while the promise is pending: afterwards its
\* callback changes nothing)
SSEError(s) ==
  /\ sess[s].transport = "sse"
  /\ sess[s].link.promise # "none"
  /\ sess' = [sess EXCEPT ![s].link.recheck = @ \/ sess[s].link.promise = "pending"]
  /\ UNCHANGED <<now, cmVars, tid, tmConnections, calls>>

\* the 2 s timer fires: readyState CONNECTING or OPEN (alive) clears the
\* 8 s timer and resolves the promise, CLOSED does nothing
SSERecheckRejects(s, alive) ==
  /\ sess[s].transport = "sse"
  /\ sess[s].link.recheck
  /\ sess' = [sess EXCEPT ![s].link.recheck = FALSE,
                          ![s].link.timer = FALSE,
                          ![s].link.promise =
                             Settle(@, IF alive THEN "recovered" ELSE "error")]
  /\ UNCHANGED <<now, cmVars, tid, tmConnections, calls>>
SSERecheck(s, alive) ==
  /\ sess[s].transport = "sse"
  /\ sess[s].link.recheck
  /\ sess' = [sess EXCEPT ![s].link.recheck = FALSE,
                          ![s].link.timer = IF alive THEN FALSE ELSE @,
                          ![s].link.promise = IF alive THEN Settle(@, "recovered")
                                              ELSE @]
  /\ UNCHANGED <<now, cmVars, tid, tmConnections, calls>>

\* the 8 s timer fires: the promise is resolved all the same
SSETimer(s) ==
  /\ sess[s].transport = "sse"
  /\ sess[s].link.timer
  /\ sess' = [sess EXCEPT ![s].link.timer = FALSE,
                          ![s].link.promise = Settle(@, "timer")]
  /\ UNCHANGED <<now, cmVars, tid, tmConnections, calls>>

\* ---- TransportManager.discoverTools -------------------------------------
\* what the transport-specific discovery can return (THROW: it threw)
THROW == {"<throw>"}

\* an array that holds null: GET /tools can answer it, discoverHTTPTools
\* returns the array it got as it is, and createConnection's
\* tools.map(tool => tool.name) throws on it
NullTools == {"<null>"}

\* the ways a discovery that awaits HTTP exchanges can end: discoverHTTPTools
\* with the answer to tools/list, else with that of GET /tools, else with its
\* fallback; discoverSSETools with its hardcoded list;
\* discoverStreamableHTTPTools with the answer to tools/list or, caught, []
DiscoveryWays(transport) ==
  CASE transport = "http" -> {"list", "alt", "fallback"}
    [] transport = "sse" -> {"hardcoded"}
    [] transport = "streamable-http" -> {"list", "caught"}
    [] OTHER -> {}

\* how the discovery of session s can end now: a WebSocket discovery as its
\* promise settled
Ways(s) ==
  IF sess[s].transport = "websocket"
  THEN {sess[s].disc.outcome} \ {"none", "pending"}
  ELSE DiscoveryWays(sess[s].transport)

TransportDiscovery(way, railway) ==
  CASE way \in {"list", "hardcoded", "result"} -> ToolSets
    [] way = "alt" -> ToolSets \cup {NullTools}
    [] way = "fallback" -> {IF railway THEN StarbucksTools ELSE {}}
    [] way = "caught" -> {{}}
    [] OTHER -> {THROW}

\* discoverTools: the catch falls back to the Starbucks tools for a
\* railway.app endpoint and throws TOOL_DISCOVERY_FAILED otherwise
DiscoverTools(way, railway) ==
  {IF t = THROW /\ railway THEN StarbucksTools ELSE t :
     t \in TransportDiscovery(way, railway)}

\* ---- ServicesController.connectToService --------------------------------
\* requiresEvmAuth: the service is tagged evmauth or blockchain
RequiresEvmAuth(tags) == "evmauth" \in tags \/ "blockchain" \in tags

\* the gate that throws EVMAUTH_REQUIRED
AuthMissingNegated(tags, hasAuth) == RequiresEvmAuth(tags) /\ hasAuth
AuthMissing(tags, hasAuth) == RequiresEvmAuth(tags) /\ ~hasAuth

\* transport = protocols[0] || transport_type || 'http', forced to
\* streamable-http for endpoints recognised as MCP servers
DetectTransport(declared, isMCPServer) ==
  IF isMCPServer THEN "streamable-http"
  ELSE IF declared = "none" THEN "http" ELSE declared

\* connectionId = uuidv4(): an id is that of one createConnection call only
FreshIdReused(r) == cpc[r] \in {"idle", "done"}
FreshId(r) == cpc[r] = "idle"

\* the ServiceConnection object createConnection builds first
NewConnection(transport, timeout) ==
  [state |-> "initializing", transport |-> transport, tools |-> {},
   lastUsed |-> now, evmAuth |-> FALSE, timeout |-> timeout]

\* timeout: params.timeout || 30000
EffectiveTimeout(timeout) == IF timeout = 0 THEN DefaultTimeout ELSE timeout

\* the TransportConnection object a connect() call builds is a new one
NewSession == CHOOSE s \in Sessions : sess[s] = NoSess

\* createConnection's catch block: the failed connection is stored
CreateFailed(r, c) ==
  /\ conn' = [conn EXCEPT ![r] = [c EXCEPT !.state = "failed"]]
  /\ connections' = connections \cup {r}
  /\ cres' = [cres EXCEPT ![r] = "CONNECTION_FAILED"]
  /\ cpc' = [cpc EXCEPT ![r] = "done"]

\* createConnection from "Step 2" on: the state is set, connect() is called
\* without a connectionId and awaited
BeginConnect(r, c) ==
  /\ \E s \in Sessions : sess[s] = NoSess
  /\ conn' = [conn EXCEPT ![r] = [c EXCEPT !.state = "authenticating"]]
  /\ TMConnectEnter(NewSession, r, c.transport, NoId, EffectiveTimeout(c.timeout))
  /\ tc' = [tc EXCEPT ![r] = NewSession]
  /\ connectAttempts' = [connectAttempts EXCEPT ![r] = @ + 1]
  /\ cpc' = [cpc EXCEPT ![r] = "connecting"]

ConnectToService(r) ==
  /\ FreshId(r)
  /\ \E found \in BOOLEAN, tags \in TagSets, hasAuth \in BOOLEAN,
        declared \in Transports \cup {"none"}, isMCPServer \in BOOLEAN,
        timeout \in BodyTimeouts :
       LET transport == DetectTransport(declared, isMCPServer)
           asked == [op |-> "connectToService", conn |-> r, tags |-> tags,
                     hasAuth |-> hasAuth, declared |-> declared]
       IN
       IF ~found THEN
         /\ cres' = [cres EXCEPT ![r] = "SERVICE_NOT_FOUND"]
         /\ cpc' = [cpc EXCEPT ![r] = "done"]
         /\ last' = [op |-> "connectToService", conn |-> r,
                     code |-> "SERVICE_NOT_FOUND", hasError |-> TRUE] @@ NoLast
         /\ UNCHANGED <<conn, tc, tid, sess, verifyCalls, connectAttempts>>
       ELSE IF AuthMissing(tags, hasAuth) THEN
         /\ cres' = [cres EXCEPT ![r] = "EVMAUTH_REQUIRED"]
         /\ cpc' = [cpc EXCEPT ![r] = "done"]
         /\ last' = asked @@ [code |-> "EVMAUTH_REQUIRED", hasError |-> TRUE] @@ NoLast
         /\ UNCHANGED <<conn, tc, tid, sess, verifyCalls, connectAttempts>>
       ELSE IF hasAuth THEN
         /\ conn' = [conn EXCEPT ![r] =
                       [NewConnection(transport, timeout)
                          EXCEPT !.state = "authenticating"]]
         /\ verifyCalls' = [verifyCalls EXCEPT ![r] = @ + 1]
         /\ cpc' = [cpc EXCEPT ![r] = "auth"]
         /\ last' = asked @@ [code |-> "PENDING"] @@ NoLast
         /\ UNCHANGED <<cres, tc, tid, sess, connectAttempts>>
       ELSE
         /\ BeginConnect(r, NewConnection(transport, timeout))
         /\ last' = asked @@ [code |-> "PENDING"] @@ NoLast
         /\ UNCHANGED <<cres, verifyCalls>>
  /\ UNCHANGED <<now, authResult, connections, tmConnections, calls>>

\* EVMAuthService.verifyAuth settles: a session, or an AppError
AuthDoneThenConnect(r) ==
  /\ cpc[r] = "auth"
  /\ \E ok \in BOOLEAN :
       /\ authResult' = [authResult EXCEPT ![r] = IF ok THEN "ok" ELSE "failed"]
       /\ BeginConnect(r, [conn[r] EXCEPT !.evmAuth = ok])
       /\ UNCHANGED <<cres, connections>>
  /\ UNCHANGED <<now, verifyCalls, tmConnections, calls, last>>
AuthDone(r) ==
  /\ cpc[r] = "auth"
  /\ \E ok \in BOOLEAN :
       /\ authResult' = [authResult EXCEPT ![r] = IF ok THEN "ok" ELSE "failed"]
       /\ IF ok THEN
            /\ BeginConnect(r, [conn[r] EXCEPT !.evmAuth = TRUE])
            /\ UNCHANGED <<cres, connections>>
          ELSE
            /\ CreateFailed(r, conn[r])
            /\ UNCHANGED <<tc, tid, sess, connectAttempts>>
  /\ UNCHANGED <<now, verifyCalls, tmConnections, calls, last>>

\* TransportManager.connect settles inside createConnection, which goes on
\* with discoverTools
ConnectDone(r) ==
  /\ cpc[r] = "connecting"
  /\ \E probeOk \in BOOLEAN, linkOk \in BOOLEAN :
       /\ TMConnectSettle(tc[r], probeOk, linkOk, TRUE)
       /\ IF ConnectOutcome(sess[tc[r]].transport, probeOk, linkOk) THEN
            /\ cpc' = [cpc EXCEPT ![r] = "discovering"]
            /\ UNCHANGED <<conn, connections, cres>>
          ELSE
            CreateFailed(r, conn[r])
  /\ UNCHANGED <<now, tc, verifyCalls, connectAttempts, authResult, calls, last>>

\* TransportManager.discoverTools settles; createConnection finishes
DiscoverDone(r) ==
  /\ cpc[r] = "discovering"
  /\ \E railway \in BOOLEAN, way \in Ways(tc[r]) :
     \E t \in DiscoverTools(way, railway) :
       /\ sess' = [sess EXCEPT ![tc[r]].disc.outcome = way]
       /\ IF t = THROW \/ t = NullTools THEN
            CreateFailed(r, conn[r])
          ELSE
            /\ conn' = [conn EXCEPT ![r] = [@ EXCEPT !.tools = t, !.state = "connected"]]
            /\ connections' = connections \cup {r}
            /\ cres' = [cres EXCEPT ![r] = "CREATED"]
            /\ cpc' = [cpc EXCEPT ![r] = "done"]
  /\ UNCHANGED <<now, tc, tid, verifyCalls, connectAttempts, authResult,
                 tmConnections, calls, last>>

\* ---- TransportManager.executeTool / disconnect --------------------------
\* executeWebSocketTool: the timer is armed, requestId = Date.now(), the
\* message handler is registered, the request is sent
NewCall(owner, caller, send) ==
  [sess |-> owner, id |-> now, timer |-> TRUE, handler |-> TRUE,
   outcome |-> IF send = "throws" THEN "send_error" ELSE "pending",
   sent |-> (send = "sent"), caller |-> caller, by |-> 0]

\* what executeHTTPTool / executeSSETool / executeStreamableHTTPTool can end
\* with: the value of the response, or a throw after an error answer of the
\* server, an axios timeout or an unreachable endpoint; executeSSETool goes
\* on to its alternative endpoints after any failure and throws
\* SSE_EXECUTION_LIMITED when none of them answers
RequestOutcomes(transport) ==
  CASE transport = "http" -> {"result", "remote_error", "timeout", "network"}
    [] transport = "sse" -> {"result", "undefined_result", "unavailable"}
    [] OTHER -> {"result", "undefined_result", "remote_error", "timeout", "network"}

\* the deadline a call on session s runs under: the timeout of the session's
\* axios client (connection.client.post), the 30 s timer of
\* executeWebSocketTool, the 30 s of executeSSETool's first POST
ExecDeadline(s) ==
  CASE sess[s].transport \in {"http", "streamable-http"} -> sess[s].timeout
    [] sess[s].transport = "websocket" -> WSExecTimeout
    [] OTHER -> SSEExecTimeout

\* the deadline of executeTool(key, ...): none (0) without a session
TMDeadline(key) == IF tmConnections[key] = 0 THEN 0 ELSE ExecDeadline(tmConnections[key])

\* executeTool: a value is returned as it is, every error is rethrown as
\* TOOL_EXECUTION_FAILED
TMCode(outcome) ==
  CASE outcome \in {"result", "undefined_result"} -> "OK"
    [] outcome = "pending" -> "PENDING"
    [] OTHER -> "TOOL_EXECUTION_FAILED"

\* the answers TransportManager.executeTool can give
TMAnswers ==
  [found : BOOLEAN,
   outcome : {"none", "pending", "send_error", "result", "undefined_result",
              "remote_error", "timeout", "network", "unavailable"}]

TMExecuteTool(key, caller, ans) ==
  LET owner == tmConnections[key] IN
  IF owner = 0 THEN
    /\ ans = [found |-> FALSE, outcome |-> "none"]
    /\ UNCHANGED calls
  ELSE IF sess[owner].transport = "websocket" THEN
    /\ Len(calls) < MaxCalls
    /\ \E send \in SendOutcomes(sess[owner].status) :
         LET call == NewCall(owner, caller, send) IN
         /\ calls' = Append(calls, call)
         /\ ans = [found |-> TRUE, outcome |-> call.outcome]
  ELSE
    /\ ans.found
    /\ ans.outcome \in RequestOutcomes(sess[owner].transport)
    /\ UNCHANGED calls

\* the code executeTool ends with: the lookup's 404, else that of the outcome
TMAnswerCode(ans) == IF ans.found THEN TMCode(ans.outcome) ELSE "CONNECTION_NOT_FOUND"

\* disconnect: an unknown key returns at once; else the socket or event
\* source is closed and the key deleted
TMDisconnect(key) ==
  LET owner == tmConnections[key] IN
  IF owner = 0 THEN
    UNCHANGED <<sess, tmConnections>>
  ELSE
    /\ sess' = [sess EXCEPT ![owner].status =
                  IF sess[owner].transport \in {"websocket", "sse"} THEN "closed" ELSE @]
    /\ tmConnections' = [tmConnections EXCEPT ![key] = 0]

\* ---- ConnectionsController / ConnectionManager --------------------------
\* connection.state !== 'connected' is refused (controller and manager)
ConnectionReadyAlways(c) == TRUE
ConnectionReady(c) == conn[c].state = "connected"

\* the JSON body: res.json of the controller on success (an undefined result
\* is dropped by JSON serialisation), errorHandler's body on a thrown error
EnvelopeBoth(code, resultDefined) ==
  [hasResult |-> code # "PENDING", hasError |-> (code \notin {"PENDING", "OK"})]
Envelope(code, resultDefined) ==
  IF code = "PENDING" THEN [hasResult |-> FALSE, hasError |-> FALSE]
  ELSE IF code = "OK" THEN [hasResult |-> resultDefined, hasError |-> FALSE]
  ELSE [hasResult |-> FALSE, hasError |-> TRUE]

\* connection.lastUsed = new Date(), written before the call is dispatched
Touch(c) == [conn EXCEPT ![c].lastUsed = now]

\* details.availableTools of TOOL_NOT_FOUND: the names of metadata.tools
AvailableToolsNone(c) == {}
AvailableTools(c) == conn[c].tools

\* the checks of ConnectionsController.executeTool, then those of
\* ConnectionManager.executeTool ("PASS": the call goes on)
ExecPrecheckReadyFirst(c, tool) ==
  IF ~ConnectionReady(c) THEN "CONNECTION_NOT_READY"
  ELSE IF c \notin connections THEN "CONNECTION_NOT_FOUND"
  ELSE IF tool \notin conn[c].tools THEN "TOOL_NOT_FOUND"
  ELSE "PASS"
ExecPrecheck(c, tool) ==
  IF c \notin connections THEN "CONNECTION_NOT_FOUND"
  ELSE IF ~ConnectionReady(c) THEN "CONNECTION_NOT_READY"
  ELSE IF tool \notin conn[c].tools THEN "TOOL_NOT_FOUND"
  ELSE IF c \notin connections THEN "CONNECTION_NOT_FOUND"
  ELSE IF ~ConnectionReady(c) THEN "CONNECTION_NOT_READY"
  ELSE "PASS"

\* timeout: the timeout of the request body, read by the controller and
\* passed on to nothing
ControllerExecuteTool(c, tool) ==
  \E timeout \in CallTimeouts :
  LET pre == ExecPrecheck(c, tool)
      seen == [op |-> "executeTool", conn |-> c, timeout |-> timeout,
               registered |-> (c \in connections), stateSeen |-> conn[c].state,
               toolKnown |-> (c \in connections /\ tool \in conn[c].tools)]
  IN
  /\ IF pre # "PASS" THEN
       /\ last' = seen @@ [code |-> pre,
                            availableTools |-> IF pre = "TOOL_NOT_FOUND"
                                               THEN AvailableTools(c) ELSE {}]
                       @@ Envelope(pre, FALSE) @@ NoLast
       /\ UNCHANGED <<conn, calls>>
     ELSE
       /\ conn' = Touch(c)
       /\ \E ans \in TMAnswers :
            /\ TMExecuteTool(Uuid(c), "controller", ans)
            /\ last' = seen @@ [reachedTM |-> TRUE, found |-> ans.found,
                                outcome |-> ans.outcome,
                                deadline |-> TMDeadline(Uuid(c)),
                                code |-> TMAnswerCode(ans)]
                            @@ Envelope(TMAnswerCode(ans), ans.outcome = "result")
                            @@ NoLast
  /\ UNCHANGED <<now, cpc, tc, tid, cres, verifyCalls, connectAttempts, authResult,
                 connections, sess, tmConnections>>

ControllerCloseKeepsEntry(c) ==
  /\ IF c \notin connections THEN
       /\ last' = [op |-> "closeConnection", conn |-> c,
                   code |-> "CONNECTION_NOT_FOUND"]
                  @@ Envelope("CONNECTION_NOT_FOUND", FALSE) @@ NoLast
       /\ UNCHANGED <<conn, connections, sess, tmConnections>>
     ELSE
       /\ TMDisconnect(Uuid(c))
       /\ conn' = [conn EXCEPT ![c].state = "disconnected"]
       /\ UNCHANGED connections
       /\ last' = [op |-> "closeConnection", conn |-> c, registered |-> TRUE,
                   stateSeen |-> conn[c].state,
                   found |-> (tmConnections[Uuid(c)] # 0), code |-> "OK"] @@ NoLast
  /\ UNCHANGED <<now, cpc, tc, tid, cres, verifyCalls, connectAttempts, authResult, calls>>
ControllerCloseConnection(c) ==
  /\ IF c \notin connections THEN
       /\ last' = [op |-> "closeConnection", conn |-> c,
                   code |-> "CONNECTION_NOT_FOUND"]
                  @@ Envelope("CONNECTION_NOT_FOUND", FALSE) @@ NoLast
       /\ UNCHANGED <<conn, connections, sess, tmConnections>>
     ELSE
       /\ TMDisconnect(Uuid(c))
       /\ conn' = [conn EXCEPT ![c].state = "disconnected"]
       /\ connections' = connections \ {c}
       /\ last' = [op |-> "closeConnection", conn |-> c, registered |-> TRUE,
                   stateSeen |-> conn[c].state,
                   found |-> (tmConnections[Uuid(c)] # 0), code |-> "OK"] @@ NoLast
  /\ UNCHANGED <<now, cpc, tc, tid, cres, verifyCalls, connectAttempts, authResult, calls>>

\* the userId query values of GET /connections ("none": no userId given)
Owners == {"none", "u1"}

\* connection.userId: connectToService passes no userId to createConnection
UserId(c) == "none"

\* ConnectionManager.listConnections
ListConnectionsOf(owner) ==
  IF owner # "none" THEN {c \in connections : UserId(c) = owner}
  ELSE {c \in connections : conn[c].state = "connected"}

ControllerListConnections(owner) ==
  /\ last' = [op |-> "listConnections", owner |-> owner,
              listed |-> ListConnectionsOf(owner), code |-> "OK"] @@ NoLast
  /\ UNCHANGED <<now, cpc, conn, tc, tid, cres, verifyCalls, connectAttempts, authResult,
                 connections, sess, tmConnections, calls>>

\* ---- the remote endpoint and the event loop -----------------------------
\* the remote end closes the socket or the stream; no 'close' listener is
\* registered anywhere
RemoteClose(s) ==
  /\ sess[s].transport \in {"websocket", "sse"}
  /\ sess[s].status = "open"
  /\ sess' = [sess EXCEPT ![s].status = "closed"]
  /\ UNCHANGED <<now, cmVars, tid, tmConnections, calls>>

\* ---- callers of the TransportManager itself -----------------------------
\* timeout: ConnectParams.timeout, a number
TMConnect(s) ==
  /\ sess[s].status \in {"none", "failed"}
  /\ \E transport \in Transports, timeout \in BodyTimeouts :
       TMConnectEnter(s, 0, transport, NoId, EffectiveTimeout(timeout))
  /\ UNCHANGED <<now, cmVars, tmConnections, calls>>

TMConnectDone(s) ==
  /\ \E probeOk \in BOOLEAN, linkOk \in BOOLEAN :
       TMConnectSettle(s, probeOk, linkOk, FALSE)
  /\ UNCHANGED <<now, cmVars, calls>>

\* timeout: the timeout of the request the call is made for, which
\* executeTool(connectionId, toolName, parameters) has no parameter for
TMExecuteToolDirect(key) ==
  /\ \E ans \in TMAnswers, timeout \in CallTimeouts :
       /\ TMExecuteTool(key, "direct", ans)
       /\ last' = [op |-> "tmExecuteTool", conn |-> tmConnections[key],
                   timeout |-> timeout, deadline |-> TMDeadline(key),
                   found |-> ans.found, outcome |-> ans.outcome,
                   code |-> TMAnswerCode(ans)] @@ NoLast
  /\ UNCHANGED <<now, cpc, conn, tc, cres, verifyCalls, connectAttempts, authResult,
                 connections, tid, sess, tmConnections>>

TMDisconnectDirect(key) ==
  /\ TMDisconnect(key)
  /\ UNCHANGED <<now, cmVars, tid, calls>>

\* discoverTools called with an established WebSocket session (once)
TMDiscoverWebSocketTools(s) ==
  /\ sess[s].transport = "websocket"
  /\ sess[s].status \in {"open", "closed"}
  /\ sess[s].disc.outcome = "none"
  /\ \E send \in SendOutcomes(sess[s].status) :
       sess' = [sess EXCEPT ![s] = DiscoverEnter(@, send)]
  /\ UNCHANGED <<now, cmVars, tid, tmConnections, calls>>

FrameKinds == {"result", "remote_error"}

\* messageHandler's test of an inbound frame: message.id === requestId
MatchesAny(call, s, id) == call.sess = s /\ call.handler
Matches(call, s, id) == call.sess = s /\ call.handler /\ call.id = id

\* the server's answer {id, result | error} to request q arrives on the open
\* socket: every registered messageHandler whose requestId equals the id
\* clears its timer, removes itself and settles its promise (by: the request
\* whose answer settled the promise); the handler of a discovery under way
\* looks for a type, which this frame has not, and lets it pass
WSMessage(q, kind) ==
  /\ q \in DOMAIN calls
  /\ calls[q].sent
  /\ sess[calls[q].sess].status = "open"
  /\ calls' = [k \in DOMAIN calls |->
                 IF Matches(calls[k], calls[q].sess, calls[q].id)
                 THEN [calls[k] EXCEPT !.timer = FALSE, !.handler = FALSE,
                                       !.outcome = Settle(@, kind),
                                       !.by = IF calls[k].outcome = "pending" THEN q ELSE @]
                 ELSE calls[k]]
  /\ UNCHANGED <<now, cmVars, tid, sess, tmConnections>>

\* the 30 s timer of a call fires: the promise is rejected, the handler stays
WSTimeoutTeardown(k) ==
  /\ k \in DOMAIN calls
  /\ calls[k].timer
  /\ calls' = [calls EXCEPT ![k].timer = FALSE, ![k].outcome = Settle(@, "timeout")]
  /\ sess' = [sess EXCEPT ![calls[k].sess].status = "closed"]
  /\ UNCHANGED <<now, cmVars, tid, tmConnections>>
WSTimeoutNoReject(k) ==
  /\ k \in DOMAIN calls
  /\ calls[k].timer
  /\ calls' = [calls EXCEPT ![k].timer = FALSE]
  /\ UNCHANGED <<now, cmVars, tid, sess, tmConnections>>
WSTimeout(k) ==
  /\ k \in DOMAIN calls
  /\ calls[k].timer
  /\ calls' = [calls EXCEPT ![k].timer = FALSE, ![k].outcome = Settle(@, "timeout")]
  /\ UNCHANGED <<now, cmVars, tid, sess, tmConnections>>

\* ---- the frames a discovery sees ----------------------------------------
\* an inbound frame as the handlers read it: its id (-1: none), its type and
\* method (fields the frames {id, result} and {id, error} do not have), and
\* whether it carries a result or an error
FrameIds == Clock \cup {-1}
Frames == [id : FrameIds, type : {"none", "response", "error"},
           method : {"none", "tools/list"}, kind : FrameKinds]

\* discoverWebSocketTools' messageHandler: a frame of type 'response' and
\* method 'tools/list' resolves, a frame of type 'error' rejects, any other
\* frame is let pass; the id is not looked at
DiscoveryVerdict(f) ==
  IF f.type = "response" /\ f.method = "tools/list" THEN "result"
  ELSE IF f.type = "error" THEN "remote_error"
  ELSE "pass"

\* a frame arrives on the open socket while the discovery's handler is
\* registered; the handlers of tool calls see it as well (by -1: settled by
\* a frame that answers none of the calls)
WSDiscoveryFrame(s, f) ==
  /\ sess[s].transport = "websocket"
  /\ sess[s].status = "open"
  /\ sess[s].disc.handler
  /\ LET d == sess[s].disc
         v == DiscoveryVerdict(f)
     IN
     sess' = [sess EXCEPT ![s].disc =
                [d EXCEPT !.timer = IF v = "pass" THEN @ ELSE FALSE,
                          !.handler = IF v = "pass" THEN @ ELSE FALSE,
                          !.outcome = IF v = "pass" THEN @ ELSE Settle(@, v),
                          !.got = IF f.id = d.id /\ d.outcome = "pending" /\ @ = "none"
                                  THEN f.kind ELSE @]]
  /\ calls' = [k \in DOMAIN calls |->
                 IF Matches(calls[k], s, f.id)
                 THEN [calls[k] EXCEPT !.timer = FALSE, !.handler = FALSE,
                                       !.outcome = Settle(@, f.kind),
                                       !.by = IF calls[k].outcome = "pending" THEN -1 ELSE @]
                 ELSE calls[k]]
  /\ UNCHANGED <<now, cmVars, tid, tmConnections>>

\* the 10 s timer of a discovery fires: the promise is rejected, the handler
\* stays
WSDiscoveryTimeout(s) ==
  /\ sess[s].disc.timer
  /\ sess' = [sess EXCEPT ![s].disc.timer = FALSE,
                          ![s].disc.outcome = Settle(@, "timeout")]
  /\ UNCHANGED <<now, cmVars, tid, tmConnections, calls>>

\* ---- specifications -----------------------------------------------------
\* the events of the sockets and event sources being connected
LinkEvents(s) ==
  \/ WSOpen(s)
  \/ WSError(s)
  \/ WSConnectTimeout(s)
  \/ \E ok \in BOOLEAN : SSEProbeDone(s, ok)
  \/ SSEOpen(s)
  \/ SSEMessage(s)
  \/ SSEError(s)
  \/ \E alive \in BOOLEAN : SSERecheck(s, alive)
  \/ SSETimer(s)

Next ==
  \/ Tick
  \/ \E r \in Reqs : ConnectToService(r)
  \/ \E r \in Reqs : AuthDone(r)
  \/ \E s \in Sessions : LinkEvents(s)
  \/ \E r \in Reqs : ConnectDone(r)
  \/ \E s \in Sessions, f \in Frames : WSDiscoveryFrame(s, f)
  \/ \E s \in Sessions : WSDiscoveryTimeout(s)
  \/ \E r \in Reqs : DiscoverDone(r)
  \/ \E s \in Sessions : RemoteClose(s)
  \/ \E c \in Reqs, tool \in ToolNames : ControllerExecuteTool(c, tool)
  \/ \E c \in Reqs : ControllerCloseConnection(c)
  \/ \E owner \in Owners : ControllerListConnections(owner)

NextTM ==
  \/ Tick
  \/ \E s \in Reqs : TMConnect(s)
  \/ \E s \in Reqs : LinkEvents(s)
  \/ \E s \in Reqs : TMConnectDone(s)
  \/ \E s \in Reqs : RemoteClose(s)
  \/ \E key \in Keys : TMExecuteToolDirect(key)
  \/ \E key \in Keys : TMDisconnectDirect(key)
  \/ \E q \in 1..MaxCalls, kind \in FrameKinds : WSMessage(q, kind)
  \/ \E k \in 1..MaxCalls : WSTimeout(k)

NextWS ==
  \/ NextTM
  \/ \E s \in Reqs : TMDiscoverWebSocketTools(s)
  \/ \E s \in Reqs, f \in Frames : WSDiscoveryFrame(s, f)
  \/ \E s \in Reqs : WSDiscoveryTimeout(s)

NextConn ==
  \/ Tick
  \/ \E s \in Sessions : TMConnect(s)
  \/ \E s \in Sessions : LinkEvents(s)
  \/ \E s \in Sessions : TMConnectDone(s)
  \/ \E s \in Sessions : RemoteClose(s)
  \/ \E key \in Keys : TMDisconnectDirect(key)

Spec == Init /\ [][Next]_vars

SpecTM == Init /\ [][NextTM]_vars

FairSpecTM == SpecTM /\ \A k \in 1..MaxCalls : WF_vars(WSTimeout(k))

SpecWS == Init /\ [][NextWS]_vars

SpecConn == Init /\ [][NextConn]_vars

FairSpecConn ==
  /\ SpecConn
  /\ \A s \in Sessions :
       /\ WF_vars(WSConnectTimeout(s))
       /\ WF_vars(SSETimer(s))
       /\ WF_vars(TMConnectDone(s))

\* ---- properties ---------------------------------------------------------
\* session s is still held in TransportManager.connections
SessionHeld(s) == \E key \in Keys : tmConnections[key] = s

\* the session createConnection had built for connection r, and whether the
\* TransportManager still holds it
SessionOf(r) == IF tc[r] = 0 THEN NoSess ELSE sess[tc[r]]
HeldFor(r) == tc[r] # 0 /\ SessionHeld(tc[r])

\* C1: no pending request outlives its session: once a session has been
\* closed by disconnect (closed and dropped from the map), no call that was
\* sent on it is still pending.
C1_NoPendingAfterClose ==
  \A k \in DOMAIN calls :
    (calls[k].sent /\ sess[calls[k].sess].status = "closed" /\ ~SessionHeld(calls[k].sess))
      => calls[k].outcome # "pending"

\* C2: every call sent on a WebSocket session reaches exactly one terminal
\* outcome: its outcome is that of the matching response or of the deadline,
\* once set it never changes (the promise and its entry stay), and a pending
\* call is eventually settled.
C2_OutcomeStable ==
  \A k \in DOMAIN calls :
    /\ k \in DOMAIN calls'
    /\ calls[k].outcome # "pending" => calls'[k].outcome = calls[k].outcome
C2_OutcomeKinds ==
  \A k \in DOMAIN calls :
    calls[k].sent => calls[k].outcome \in {"pending", "result", "remote_error", "timeout"}
C2_ExactlyOneOutcome ==
  /\ [][C2_OutcomeStable]_vars
  /\ []C2_OutcomeKinds
  /\ \A k \in 1..MaxCalls :
       (k \in DOMAIN calls) ~> (k \in DOMAIN calls /\ calls[k].outcome # "pending")
\* a call that timed out and whose response arrived afterwards
C2_Witness ==
  \E k \in DOMAIN calls :
    calls[k].sent /\ calls[k].outcome = "timeout" /\ ~calls[k].handler

\* C3: two calls outstanding on the same session never carry the same
\* request id.
C3_DistinctRequestIds ==
  \A j, k \in DOMAIN calls :
    (j # k /\ calls[j].sess = calls[k].sess /\ calls[j].sent /\ calls[k].sent
       /\ calls[j].outcome = "pending" /\ calls[k].outcome = "pending")
      => calls[j].id # calls[k].id

\* C4: executeTool on a registered connection whose state is not CONNECTED
\* is refused as not ready and never reaches the transport.
C4_NoDispatchUnlessConnected ==
  (last.op = "executeTool" /\ last.registered /\ last.stateSeen # "connected")
    => (~last.reachedTM /\ ~last.found /\ last.code = "CONNECTION_NOT_READY")
C4_Witness ==
  last.op = "executeTool" /\ last.registered /\ last.stateSeen = "failed"
    /\ last.code = "CONNECTION_NOT_READY"

\* C5: closeConnection on an id that is not (or no longer) registered
\* returns normally, without an error.
C5_CloseIdempotent ==
  (last.op = "closeConnection" /\ ~last.registered)
    => (last.code = "OK" /\ ~last.hasError)

\* C6: after closeConnection of a registered connection, the connection is
\* out of the registry and the session createConnection established for it
\* is closed and out of the transport manager's map.
C6_CloseRemovesSession ==
  (last.op = "closeConnection" /\ last.registered
     /\ SessionOf(last.conn).status \in {"open", "closed"})
    => /\ last.conn \notin connections
       /\ ~HeldFor(last.conn)
       /\ SessionOf(last.conn).status # "open"
            \/ SessionOf(last.conn).transport \notin {"websocket", "sse"}

\* C7: executeTool on a CONNECTED connection with a discovered tool finds
\* the connection's transport session and does not end with a not-found.
C7_ExecuteFindsSession ==
  (last.op = "executeTool" /\ last.registered /\ last.stateSeen = "connected"
     /\ last.toolKnown)
    => (last.found /\ last.code # "CONNECTION_NOT_FOUND")

C9_NothingDone(r) ==
  /\ verifyCalls[r] = 0
  /\ connectAttempts[r] = 0
  /\ r \notin connections
  /\ conn[r] = NoConn
  /\ tc[r] = 0
C9_AuthRequiredBeforeAnyCall ==
  /\ (last.op = "connectToService" /\ last.tags \cap {"evmauth", "blockchain"} # {}
        /\ ~last.hasAuth)
       => (last.code = "EVMAUTH_REQUIRED" /\ C9_NothingDone(last.conn))
  /\ \A r \in Reqs : cres[r] = "EVMAUTH_REQUIRED" => C9_NothingDone(r)
C9_Witness ==
  /\ last.op = "connectToService" /\ last.tags = {"blockchain"} /\ ~last.hasAuth
  /\ cres[last.conn] = "EVMAUTH_REQUIRED"

\* C10: no transport connect attempt is made while or unless verification
\* has succeeded; when verification fails createConnection ends
\* CONNECTION_FAILED with the connection in state failed and no attempt made.
C10_VerifyBeforeConnect ==
  \A r \in Reqs :
    /\ cpc[r] = "auth" => (connectAttempts[r] = 0 /\ tc[r] = 0)
    /\ (verifyCalls[r] > 0 /\ connectAttempts[r] > 0) => authResult[r] = "ok"
    /\ authResult[r] = "failed"
         => /\ cpc[r] = "done" /\ cres[r] = "CONNECTION_FAILED"
            /\ connectAttempts[r] = 0 /\ tc[r] = 0
            /\ r \in connections => conn[r].state = "failed"
            /\ conn[r].state \in {"failed", "disconnected"}
C10_Witness ==
  \E r \in Reqs : authResult[r] = "failed" /\ r \in connections /\ conn[r].state = "failed"

\* the transports createConnection called TransportManager.connect for, in
\* order: every call is made with params.transport
Attempted(r) == [i \in 1..connectAttempts[r] |-> conn[r].transport]

\* details of the CONNECTION_FAILED error thrown by createConnection's catch
FailureDetails(r) == [serviceId |-> r, transport |-> conn[r].transport]

\* C11: with no pinned transport the transports are attempted in the order
\* streamable-http, websocket, sse, http, each after the previous one failed:
\* the attempts made are a prefix of that order, a created connection reports
\* the transport attempted last, and a failure comes only after all four.
C11_Order == <<"streamable-http", "websocket", "sse", "http">>
C11_FallbackOrder ==
  (last.op = "connectToService" /\ last.code = "PENDING" /\ last.declared = "none")
    => LET a == Attempted(last.conn) IN
       /\ Len(a) <= Len(C11_Order)
       /\ \A i \in 1..Len(a) : a[i] = C11_Order[i]
       /\ cres[last.conn] = "CREATED" => conn[last.conn].transport = a[Len(a)]
       /\ SessionOf(last.conn).status = "failed" => Len(a) = Len(C11_Order)

\* C12: when every connect attempt failed, the failure's details list each
\* transport attempted together with the reason it failed.
C12_AggregateFailure ==
  \A r \in Reqs :
    (cres[r] = "CONNECTION_FAILED" /\ SessionOf(r).status = "failed")
      => LET d == FailureDetails(r) IN
         /\ "attempts" \in DOMAIN d
         /\ Len(d.attempts) = connectAttempts[r]
         /\ \A i \in 1..Len(d.attempts) :
              /\ d.attempts[i].transport = Attempted(r)[i]
              /\ "reason" \in DOMAIN d.attempts[i]

\* C13: when the descriptor pins a transport kind, exactly one connect
\* attempt is made and it is for the pinned kind.
C13_PinnedOnly ==
  (last.op = "connectToService" /\ last.code = "PENDING" /\ last.declared # "none"
     /\ connectAttempts[last.conn] > 0)
    => Attempted(last.conn) = <<last.declared>>

\* C14: a failed discovery never fails connection creation: once the
\* transport session was established and its discovery has failed (thrown,
\* or caught inside the transport's own discovery), createConnection ends
\* with a created connection (connected until it is closed), never with a
\* failed one.
C14_FailedWays == {"remote_error", "timeout", "send_error", "fallback", "caught"}
C14_DiscoveryNeverFails ==
  \A r \in Reqs :
    (cpc[r] = "done" /\ SessionOf(r).status \in {"open", "closed"}
       /\ SessionOf(r).disc.outcome \in C14_FailedWays)
      => /\ cres[r] = "CREATED"
         /\ conn[r].state \in {"connected", "disconnected"}

\* C15: a failed liveness probe does not abort establishment: a connect
\* whose probe failed still yields a session, once it has settled.
C15_ProbeFailureTolerated ==
  \A s \in Sessions :
    (sess[s].probe = "failed" /\ sess[s].status # "connecting")
      => sess[s].status \in {"open", "closed"}

\* C16: during createConnection the state follows the stage: authenticating
\* only while an auth request is being verified, connecting while the
\* transport connect is awaited, discovering while discovery is awaited.
C16_StateFollowsStage ==
  \A r \in Reqs :
    /\ conn[r].state = "authenticating" => cpc[r] = "auth"
    /\ cpc[r] = "connecting" => conn[r].state = "connecting"
    /\ cpc[r] = "discovering" => conn[r].state = "discovering"

\* C17: once the remote end has closed the transport session of a registered
\* connection, the connection is no longer in state connected.
C17_RemoteCloseDisconnects ==
  \A r \in Reqs :
    (r \in connections /\ SessionOf(r).status = "closed") => conn[r].state # "connected"

C19_FirstFailure ==
  last.op = "executeTool"
    => /\ ~last.registered => (last.code = "CONNECTION_NOT_FOUND" /\ ~last.reachedTM)
       /\ (last.registered /\ last.stateSeen # "connected")
            => (last.code = "CONNECTION_NOT_READY" /\ ~last.reachedTM)
C19_Refused ==
  (last' # last /\ last'.op = "executeTool" /\ ~last'.reachedTM
     /\ last'.code \in {"CONNECTION_NOT_FOUND", "CONNECTION_NOT_READY"})
    => UNCHANGED <<connections, conn, sess, tmConnections, calls>>
C20_TimeoutRemovesEntry ==
  \A k \in DOMAIN calls :
    calls[k].outcome = "timeout" => (~calls[k].timer /\ ~calls[k].handler)

C22_LateResponseDiscarded ==
  \A j, k \in DOMAIN calls :
    (j # k /\ calls[j].outcome = "timeout") => calls[k].by # j

\* C23: each call is completed only by the answer to its own request.
C23_OwnResponseOnly ==
  \A k \in DOMAIN calls : calls[k].by \in {0, k}

\* C24: a step in which a tool call fails (a WebSocket call times out, is
\* answered with an error or cannot be sent, or another transport's call
\* throws) leaves every session, the session map, the registry and every
\* connection as they were.
C24_Failures == {"timeout", "remote_error", "send_error", "network", "unavailable"}
C24_FailedCallStep ==
  (\/ \E k \in DOMAIN calls' :
        /\ calls'[k].outcome \in C24_Failures
        /\ k \in DOMAIN calls => calls[k].outcome = "pending"
   \/ /\ last' # last /\ last'.op = "tmExecuteTool"
      /\ last'.outcome \in C24_Failures)
    => /\ UNCHANGED <<tmConnections, connections, conn>>
       /\ \A s \in Sessions : /\ sess'[s].status = sess[s].status
                               /\ sess'[s].transport = sess[s].transport
C25_UnavailableDistinct ==
  (last.op = "tmExecuteTool" /\ last.outcome = "unavailable")
    => last.code \notin {TMCode("remote_error"), TMCode("timeout")}

\* C26: the code a failed call ends with tells its category: no failure of
\* another category (remote error, timeout, transport failure) ends with
\* the same code.
C26_Category(o) ==
  CASE o = "remote_error" -> "remote"
    [] o = "timeout" -> "timeout"
    [] o \in {"network", "unavailable", "send_error"} -> "transport"
    [] OTHER -> "none"
C26_CategoriesDistinct ==
  (last.op = "tmExecuteTool" /\ C26_Category(last.outcome) # "none")
    => \A o \in C24_Failures :
         C26_Category(o) # C26_Category(last.outcome) => TMCode(o) # last.code

\* C27: a tool call that fails leaves the connection's last-used time as it
\* was.
C27_FailedCallStep ==
  (last' # last /\ last'.op = "executeTool" /\ last'.registered
     /\ last'.code \notin {"OK", "PENDING"})
    => conn'[last'.conn].lastUsed = conn[last'.conn].lastUsed
C27_LastUsedOnlyOnSuccess == [][C27_FailedCallStep]_vars

\* C28: listConnections returns exactly the registered connections that are
\* not disconnected, restricted to the owner when one is given.
C28_ListStep ==
  (last' # last /\ last'.op = "listConnections")
    => last'.listed =
         {c \in connections' :
            /\ conn'[c].state # "disconnected"
            /\ last'.owner # "none" => UserId(c) = last'.owner}
C28_ListsLiveConnections == [][C28_ListStep]_vars

\* C29: a connection whose creation failed is not in the registry.
C29_FailedNotRegistered ==
  \A r \in Reqs : cres[r] = "CONNECTION_FAILED" => r \notin connections

\* C30: when creation fails after the transport session was established,
\* the session is closed and no longer held in the session map.
C30_FailedSessionDestroyed ==
  \A r \in Reqs :
    (cres[r] = "CONNECTION_FAILED" /\ SessionOf(r).status \in {"open", "closed"})
      => /\ ~HeldFor(r)
         /\ SessionOf(r).transport \in {"websocket", "sse"} => SessionOf(r).status = "closed"

\* C31: a tool call runs under the timeout given with the call, whatever
\* timeout the connection was established with.
C31_CallScopedTimeout ==
  (last.op = "tmExecuteTool" /\ last.found /\ last.timeout # 0)
    => last.deadline = last.timeout

\* the open sessions that were built for connection c
LiveSessions(c) == {s \in Sessions : sess[s].owner = c /\ sess[s].status = "open"}

\* C32: no connection ever has two open transport sessions at once.
C32_AtMostOneLiveSession ==
  \A c \in Reqs : Cardinality(LiveSessions(c)) <= 1
C32_Witness ==
  /\ last.op = "executeTool" /\ last.reachedTM
  /\ conn[last.conn].state = "connected"
  /\ Cardinality(LiveSessions(last.conn)) = 1

\* C33: on a WebSocket session a frame {id, result} or {id, error} carrying
\* the id of an outstanding request completes it with that result or error
\* and cancels its timer, for the tools/list request of a discovery and for
\* a tools/call request alike, and a request is completed by no other frame.
C33_MatchingFrameCompletes ==
  /\ \A s \in Sessions :
       LET d == sess[s].disc IN
       /\ d.got # "none" => (d.outcome = d.got /\ ~d.timer)
       /\ d.outcome \in FrameKinds => d.got = d.outcome
  /\ \A k \in DOMAIN calls :
       /\ calls[k].by = k => (calls[k].outcome \in FrameKinds /\ ~calls[k].timer)
       /\ calls[k].outcome \in FrameKinds
            => (calls[k].by \in DOMAIN calls /\ calls[calls[k].by].id = calls[k].id)

\* C34: a stored connection is never initializing or authenticating, a
\* disconnected connection is not stored, and whenever no createConnection
\* is under way every stored connection is connected or failed.
C34_RegistryStates ==
  /\ \A r \in connections : conn[r].state \notin {"initializing", "authenticating"}
  /\ \A r \in Reqs : conn[r].state = "disconnected" => r \notin connections
  /\ (\A r \in Reqs : cpc[r] \in {"idle", "done"})
       => \A r \in connections : conn[r].state \in {"connected", "failed"}
C34_Witness ==
  /\ last.op = "closeConnection" /\ last.registered /\ last.stateSeen = "failed"
  /\ conn[last.conn].state = "disconnected" /\ last.conn \notin connections

\* C35: a connect that succeeds never replaces the session map's entry of a
\* session that is still open.
C35_OverwriteStep ==
  \A k \in Keys :
    (tmConnections[k] # 0 /\ tmConnections'[k] \notin {0, tmConnections[k]})
      => sess[tmConnections[k]].status # "open"
C35_DistinctKeys == [][C35_OverwriteStep]_vars

\* C36: createConnection with transport http and no auth request never ends
\* failed: whatever the probe and the discovery calls did, it ends with a
\* connected connection stored in the registry, its tools those the remote
\* listed or, all calls having failed, none or the fallback set.
C36_HttpAlwaysConnects ==
  \A r \in Reqs :
    (conn[r].transport = "http" /\ verifyCalls[r] = 0)
      => /\ conn[r].state # "failed"
         /\ cres[r] \in {"none", "CREATED"}
         /\ cpc[r] = "done"
              => /\ cres[r] = "CREATED"
                 /\ conn[r].state \in {"connected", "disconnected"}
                 /\ conn[r].state = "connected" => r \in connections
                 /\ conn[r].tools \in ToolSets
                 /\ SessionOf(r).disc.outcome \in DiscoveryWays("http")

\* C37: an SSE connect whose reachability GET succeeded never fails: its
\* promise is only ever resolved (by open, a message, a recovered error or
\* the 8 s timer), and the attempt ends with an established session.
C37_NeverRejected ==
  \A s \in Sessions :
    (sess[s].transport = "sse" /\ sess[s].probe = "ok")
      => /\ sess[s].status # "failed"
         /\ sess[s].link.promise \in {"pending"} \cup LinkResolved
         /\ sess[s].status \in {"open", "closed"} => sess[s].link.promise \in LinkResolved
C37_SSEConnectResolves ==
  /\ []C37_NeverRejected
  /\ \A s \in Sessions :
       (sess[s].transport = "sse" /\ sess[s].probe = "ok"
          /\ sess[s].status = "connecting")
         ~> (sess[s].transport = "sse" /\ sess[s].status \in {"open", "closed"})
\* established on the 8 s timer alone
C37_Witness ==
  \E s \in Sessions :
    /\ sess[s].transport = "sse" /\ sess[s].status = "open"
    /\ sess[s].link.promise = "timer" /\ SessionHeld(s)

\* C38: a WebSocket connect settles exactly once: resolved on open, rejected
\* on error, both with the timer cancelled, or rejected by the timer, which
\* closes the socket; once settled, no later open, error or timer changes
\* the outcome (until the session object is used for another connect);
\* connect() ends as the promise did.
C38_Settled(s) ==
  sess[s].transport = "websocket" /\ sess[s].link.promise \notin {"none", "pending"}
C38_Stable ==
  \A s \in Sessions :
    (C38_Settled(s) /\ ~(sess[s].status = "failed" /\ sess'[s].status = "connecting"))
      => sess'[s].link.promise = sess[s].link.promise
C38_Outcome ==
  \A s \in Sessions :
    sess[s].transport = "websocket"
      => /\ sess[s].link.promise \in {"none", "pending", "open", "error", "timeout"}
         /\ sess[s].link.promise # "pending" => ~sess[s].link.timer
         /\ sess[s].link.closed <=> sess[s].link.promise = "timeout"
         /\ sess[s].status \in {"open", "closed"} => sess[s].link.promise = "open"
         /\ sess[s].status = "failed" => sess[s].link.promise \in {"error", "timeout"}
C38_SettlesOnce ==
  /\ [][C38_Stable]_vars
  /\ []C38_Outcome
  /\ \A s \in Sessions :
       (sess[s].transport = "websocket" /\ sess[s].link.promise = "pending")
         ~> C38_Settled(s)
C38_Witness ==
  \E s \in Sessions :
    /\ sess[s].transport = "websocket" /\ sess[s].status = "failed"
    /\ sess[s].link.promise = "timeout" /\ sess[s].link.closed

====
